---- MODULE Spec2Model ----
(***************************************************************************)
(* A model of the AFTC quote pipeline:                                     *)
(*   RealtimeDataManager   (core/database/realtime_data.py)                *)
(*   HistoricalDataManager (core/database/historical_data.py)              *)
(*   SimpleStrategy        (strategies/single_currency/simple_strategy.py) *)
(*   CorrelationStrategy   (strategies/multi_currency/...)                 *)
(*   TradingBot            (core/engine/trading_bot.py)                    *)
(*                                                                         *)
(* Rates are integers (hundredths); percentages and ratios are compared by *)
(* cross-multiplication, so the arithmetic is exact where the program uses *)
(* binary floating point.                                                  *)
(***************************************************************************)
EXTENDS Integers, Sequences, FiniteSets, TLC

(***************************************************************************)
(* Bounds of the model.                                                    *)
(***************************************************************************)
\* how many of the configured currency pairs the feed polls in the model
NumPairs == 2
\* how many poll ticks (calls of _update_data) a run may start
MaxTicks == 3
\* how many poller threads a run may create
MaxThreads == 2
\* how many trades a run may record
MaxTrades == 2
\* the last day of a run of the historical store (the first is day 1)
MaxDate == 3
\* CorrelationStrategy.correlation_window, in days
correlation_window == 2
\* how many cycles a bot with a CorrelationStrategy runs
MaxCycles == 2

(***************************************************************************)
(* Values.                                                                 *)
(***************************************************************************)
\* self.currency_pairs, realtime_data.py:32
AllPairs == <<"EUR/USD", "USD/JPY", "GBP/USD", "USD/CHF", "USD/CAD">>

\* the empty dict {}
EmptyDict == <<>>

\* thread 0 is the thread that constructs the manager and then calls it;
\* threads 1..MaxThreads are the threading.Thread objects start_updates makes
MainThread == 0
PollerIds == 1 .. MaxThreads
ThreadIds == 0 .. MaxThreads

VARIABLES
  quotes,            \* the rates the QuoteSource answers with (fixed per run)
  currency_pairs,    \* RealtimeDataManager.currency_pairs
  latest_data,       \* RealtimeDataManager.latest_data: pair -> [rate, timestamp]
  stop_flag,         \* RealtimeDataManager.stop_flag (threading.Event)
  update_thread,     \* RealtimeDataManager.update_thread: 0 for None, else a thread id
  session_open,      \* APIConnector.session not yet closed
  journal,           \* data/realtime_<day>.json: the records written, in order
  thr,               \* per thread: pc and the locals of _update_data
  now,               \* the clock datetime.now() reads: one value per tick started
  op,                \* the call the main thread is inside of
  ret,               \* the value the last call of the main thread returned
  lastOp,            \* history: what the main thread's last call did
  pubOk,             \* history: pairs whose fetch returned a rate in the tick published last
  pubDropped,        \* history: the last publish found a pair in the old snapshot
                     \*   whose fetch had failed in its tick
  pubCarried,        \* history: ... and that pair is still in the snapshot after it
  pubData,           \* history: the dict and the timestamp of the tick published last
  read_data,         \* the value the last call of get_latest_data returned
  late,              \* history: per poller counted, the ticks it began with the stop flag set
  threshold_percent, \* SimpleStrategy.threshold_percent, in tenths of a percent
  previous_rate,     \* SimpleStrategy.previous_rate: <<>> for None, else <<rate>>
  sLast,             \* history: the last call of SimpleStrategy.make_decision
  trade_mode,        \* TradingBot.trade_mode
  is_running,        \* TradingBot.is_running
  trade_history,     \* TradingBot.trade_history
  bLast,             \* history: the last calls of TradingBot
  today,             \* the date datetime.now() gives, in days
  files,             \* data/historical/<pair>.json, per pair
  hLast,             \* the call of HistoricalDataManager that has not returned yet
  divergence_threshold,     \* CorrelationStrategy.divergence_threshold, in thousandths
  historical_correlations,  \* CorrelationStrategy.historical_correlations
  dcall,             \* the call of CorrelationStrategy.make_decision under way
  dLast              \* history: the last call of it that returned

feedVars == <<quotes, currency_pairs, latest_data, stop_flag, update_thread, session_open,
              journal, thr, now, op, ret, lastOp>>
pubVars == <<pubOk, pubDropped, pubCarried, pubData, read_data, late>>
stratVars == <<threshold_percent, previous_rate, sLast>>
botVars == <<trade_mode, is_running, trade_history, bLast>>
histVars == <<today, files, hLast>>
divVars == <<divergence_threshold, historical_correlations, dcall, dLast>>

vars == <<feedVars, pubVars, stratVars, botVars, histVars, divVars>>

\* what one call of get_exchange_rate does: it returns a rate, returns None
\* (api_connector.py:68 and :72) or raises (float() of a rate that is no number)
FetchOutcomes ==
  {[kind |-> "rate", rate |-> r] : r \in quotes}
    \cup {[kind |-> "none", rate |-> 0], [kind |-> "raise", rate |-> 0]}

(***************************************************************************)
(* Threads.                                                                *)
(***************************************************************************)
\* the locals of one thread outside _update_data
Idle(pc) == [pc |-> pc, i |-> 0, updated_data |-> EmptyDict, timestamp |-> 0, ok |-> {}]

\* threading.Thread.is_alive()
is_alive(t) == thr[t].pc \notin {"unborn", "dead"}

\* the thread is inside _update_data
InUpdateData(t) == thr[t].pc \in {"fetch", "publish", "swap", "save"}

\* a lock taken at the start of the tick and kept to its end
HoldsLockWholeTick(t) == thr[t].pc \in {"fetch", "publish", "swap", "save"}

\* thread t is inside `with self.data_lock:` of _update_data, lines 95-96
holds_data_lock(t) == thr[t].pc = "swap"

\* `with self.data_lock:` of get_latest_data (line 129) and get_latest_rate
\* (line 142) has to wait: another thread holds the lock
ReaderBlocked == \E t \in PollerIds \cup {MainThread} : holds_data_lock(t)

\* where a thread goes when _update_data returns
AfterUpdateData(t) == IF t = MainThread THEN "ctor_start" ELSE "sleep"

\* a poller that an exception of _update_data ends
AfterRaiseDies(t) == IF t = MainThread THEN "ctor_failed" ELSE "dead"

\* where a thread goes when _update_data raises
AfterRaise(t) == IF t = MainThread THEN "ctor_failed" ELSE "backoff"

\* _update_data, lines 78-79: a fresh dict and the tick's timestamp
BeginUpdateData(t) ==
  /\ now < MaxTicks
  /\ thr' = [thr EXCEPT ![t] = [pc |-> "fetch", i |-> 1, updated_data |-> EmptyDict,
                                timestamp |-> now, ok |-> {}]]
  /\ now' = now + 1

\* a loop test that never sees the stop signal
StopNeverObserved(flag) == FALSE

\* _update_loop, line 68: self.stop_flag.is_set()
StopObserved(flag) == flag

\* _update_loop, line 68: the loop test; it is passed only while the run has
\* a tick left to start
UpdateLoopTest(t) ==
  /\ t \in PollerIds
  /\ thr[t].pc = "check"
  /\ IF StopObserved(stop_flag)
       THEN thr' = [thr EXCEPT ![t] = Idle("dead")]
       ELSE /\ now < MaxTicks
            /\ thr' = [thr EXCEPT ![t].pc = "call"]
  /\ UNCHANGED <<quotes, currency_pairs, latest_data, stop_flag, update_thread, session_open,
                 journal, now, op, ret, lastOp, pubOk, pubDropped, pubCarried,
                 pubData, read_data, late>>
  /\ UNCHANGED <<stratVars, botVars, histVars, divVars>>

\* _update_loop, line 70: the call of _update_data after a test that found
\* the flag clear; the flag may have been set since
CallUpdateData(t) ==
  /\ t \in PollerIds
  /\ thr[t].pc = "call"
  /\ BeginUpdateData(t)
  /\ late' = IF t \in DOMAIN late /\ stop_flag /\ late[t] < 2
               THEN [late EXCEPT ![t] = @ + 1]
               ELSE late
  /\ UNCHANGED <<quotes, currency_pairs, latest_data, stop_flag, update_thread, session_open,
                 journal, op, ret, lastOp, pubOk, pubDropped, pubCarried, pubData, read_data>>
  /\ UNCHANGED <<stratVars, botVars, histVars, divVars>>

\* an entry stamped with the time of its own fetch, later for each pair
PutRateStampedAtFetch(d, pair, rate, ts) ==
  [p \in (DOMAIN d) \cup {pair} |->
     IF p = pair THEN [rate |-> rate, timestamp |-> ts + Cardinality(DOMAIN d)] ELSE d[p]]

\* updated_data[pair] = {'rate': rate, 'timestamp': timestamp}
PutRate(d, pair, rate, ts) ==
  [p \in (DOMAIN d) \cup {pair} |->
     IF p = pair THEN [rate |-> rate, timestamp |-> ts] ELSE d[p]]

\* _update_data, lines 81-92: one turn of the loop over currency_pairs
FetchRate(t) ==
  /\ thr[t].pc = "fetch"
  /\ \E got \in FetchOutcomes :
       LET pair == currency_pairs[thr[t].i]
           rate == got.rate
           last == thr[t].i = Len(currency_pairs)
       IN  CASE got.kind = "raise" ->
                  thr' = [thr EXCEPT ![t] = Idle(AfterRaise(t))]
             [] got.kind = "none" ->
                  thr' = [thr EXCEPT ![t].i = @ + 1,
                                     ![t].pc = IF last THEN "publish" ELSE "fetch"]
             [] OTHER ->
                  thr' = [thr EXCEPT ![t].i = @ + 1,
                                     ![t].pc = IF last THEN "publish" ELSE "fetch",
                                     ![t].updated_data = PutRate(@, pair, rate, thr[t].timestamp),
                                     ![t].ok = @ \cup {pair}]
  /\ UNCHANGED <<quotes, currency_pairs, latest_data, stop_flag, update_thread, session_open,
                 journal, now, op, ret, lastOp, pubOk, pubDropped, pubCarried,
                 pubData, read_data, late>>
  /\ UNCHANGED <<stratVars, botVars, histVars, divVars>>

\* a publish that patches the old snapshot instead of replacing it
SwapPatching(old, new) ==
  [p \in (DOMAIN old) \cup (DOMAIN new) |-> IF p \in DOMAIN new THEN new[p] ELSE old[p]]

\* _update_data, lines 95-96: with self.data_lock: self.latest_data = updated_data
Swap(old, new) == new

\* _update_data, line 95: with self.data_lock: the thread waits until no
\* other thread holds the lock, then holds it
AcquireLock(t) ==
  /\ thr[t].pc = "publish"
  /\ \A u \in ThreadIds \ {t} : ~holds_data_lock(u)
  /\ thr' = [thr EXCEPT ![t].pc = "swap"]
  /\ UNCHANGED <<quotes, currency_pairs, latest_data, stop_flag, update_thread, session_open,
                 journal, now, op, ret, lastOp>>
  /\ UNCHANGED <<pubVars, stratVars, botVars, histVars, divVars>>

\* _update_data, line 96: the assignment, and the release of the lock at the
\* end of the with block
Publish(t) ==
  /\ thr[t].pc = "swap"
  /\ latest_data' = Swap(latest_data, thr[t].updated_data)
  /\ pubOk' = thr[t].ok
  /\ pubDropped' = (\E p \in DOMAIN latest_data : p \notin thr[t].ok)
  /\ pubCarried' = (\E p \in DOMAIN latest_data : p \notin thr[t].ok /\ p \in DOMAIN latest_data')
  /\ pubData' = [snapshot |-> thr[t].updated_data, timestamp |-> thr[t].timestamp]
  /\ UNCHANGED <<read_data, late>>
  /\ thr' = [thr EXCEPT ![t].pc = "save"]
  /\ UNCHANGED <<quotes, currency_pairs, stop_flag, update_thread, session_open,
                 journal, now, op, ret, lastOp>>
  /\ UNCHANGED <<stratVars, botVars, histVars, divVars>>

\* the day's journal file holding these records; with none it stands for
\* the file that does not exist yet (existing_data = [], line 111)
JournalOf(records) == [cut |-> FALSE, records |-> records]

\* the day's journal file left cut short: json.load raises on it
JournalCut == [cut |-> TRUE, records |-> <<>>]

\* what the open(filename, 'w') and json.dump of lines 121-122 may do:
\* write the file, fail before the file is touched, fail with the file cut
\* short
JournalOutcomes == {"ok", "open_fails", "dump_fails"}

\* _save_data_to_file, lines 103-125, with the dict of the tick and the
\* time of the call: read the day's file (json.load raises on a file cut
\* short), append one record, write the whole file back; any exception is
\* logged and swallowed
save_data_to_file(file, data, at, outcome) ==
  IF file.cut
    THEN file
    ELSE CASE outcome = "ok" ->
                JournalOf(Append(file.records, [timestamp |-> at, rates |-> data]))
           [] outcome = "open_fails" -> file
           [] OTHER -> JournalCut

SaveDataToFile(t) ==
  /\ thr[t].pc = "save"
  /\ \E outcome \in (IF journal.cut THEN {"ok"} ELSE JournalOutcomes) :
       journal' = save_data_to_file(journal, thr[t].updated_data, now, outcome)
  /\ thr' = [thr EXCEPT ![t] = Idle(AfterUpdateData(t))]
  /\ UNCHANGED <<quotes, currency_pairs, latest_data, stop_flag, update_thread, session_open,
                 now, op, ret, lastOp, pubOk, pubDropped, pubCarried,
                 pubData, read_data, late>>
  /\ UNCHANGED <<stratVars, botVars, histVars, divVars>>

\* a loop that goes from the sleep of a tick straight to the next call
AfterSleepCallsAgain(pc) == IF pc = "sleep" THEN "call" ELSE "check"

\* _update_loop, lines 68-74: after either sleep the loop is back at its test
AfterSleep(pc) == "check"

\* _update_loop, line 71 (time.sleep(update_interval)) and line 74 (time.sleep(5))
SleepOver(t) ==
  /\ t \in PollerIds
  /\ thr[t].pc \in {"sleep", "backoff"}
  /\ thr' = [thr EXCEPT ![t].pc = AfterSleep(thr[t].pc)]
  /\ UNCHANGED <<quotes, currency_pairs, latest_data, stop_flag, update_thread, session_open,
                 journal, now, op, ret, lastOp, pubOk, pubDropped, pubCarried,
                 pubData, read_data, late>>
  /\ UNCHANGED <<stratVars, botVars, histVars, divVars>>

(***************************************************************************)
(* RealtimeDataManager: the calls of the controlling thread.               *)
(***************************************************************************)
\* no tick has published yet
NoTick == [snapshot |-> EmptyDict, timestamp |-> 0 - 1]

\* get_latest_data has not been called
NotRead == [called |-> FALSE]

\* dict.copy(): a new dict of the same entries
copy(d) == [p \in DOMAIN d |-> d[p]]

\* get_latest_data, lines 129-130: with self.data_lock: return
\* self.latest_data.copy().  The record keeps, next to the value returned,
\* the tick that published last and whether a tick was being built then.
GetLatestData ==
  /\ thr[MainThread].pc = "idle"
  /\ ~ReaderBlocked
  /\ read_data' = [called |-> TRUE,
                   value |-> copy(latest_data),
                   tick |-> pubData,
                   midTick |-> \E t \in PollerIds :
                                 /\ InUpdateData(t)
                                 /\ DOMAIN thr[t].updated_data # {},
                   during |-> {thr[t].pc : t \in PollerIds}]
  /\ UNCHANGED <<feedVars, pubOk, pubDropped, pubCarried, pubData, late>>
  /\ UNCHANGED <<stratVars, botVars, histVars, divVars>>

\* the thread ids not used yet
Unborn == {t \in PollerIds : thr[t].pc = "unborn"}

\* a start_updates that does not look at the thread it has
NeedsThreadUnguarded == TRUE

\* start_updates, line 52: the test that guards the start of a thread
NeedsThread == update_thread = 0 \/ ~is_alive(update_thread)

\* start_updates, lines 52-57
start_updates ==
  IF NeedsThread
    THEN /\ Unborn # {}
         /\ LET t == CHOOSE u \in Unborn : \A v \in Unborn : u <= v
            IN  /\ stop_flag' = FALSE
                /\ update_thread' = t
                /\ thr' = [thr EXCEPT ![t] = Idle("check"), ![MainThread].pc = "idle"]
         /\ lastOp' = "start_new"
    ELSE /\ thr' = [thr EXCEPT ![MainThread].pc = "idle"]
         /\ lastOp' = "start_noop"
         /\ UNCHANGED <<stop_flag, update_thread>>

\* __init__, line 48: the constructor's call of start_updates
CtorStart ==
  /\ thr[MainThread].pc = "ctor_start"
  /\ start_updates
  /\ UNCHANGED <<quotes, currency_pairs, latest_data, session_open, journal, now, op, ret>>
  /\ UNCHANGED <<pubVars, stratVars, botVars, histVars, divVars>>

StartUpdates ==
  /\ thr[MainThread].pc = "idle"
  /\ start_updates
  /\ UNCHANGED <<quotes, currency_pairs, latest_data, session_open, journal, now, op, ret>>
  /\ UNCHANGED <<pubVars, stratVars, botVars, histVars, divVars>>

\* a shutdown that reports whether the bot was running
ShutdownResultIfRunning(running) == IF running THEN "True" ELSE "False"

\* TradingBot.shutdown, trading_bot.py:107: return True
ShutdownResult(running) == "True"

\* what is left of a call once its stop_updates has returned: close goes on
\* to api_connector.close() (realtime_data.py:150); shutdown, which has set
\* is_running to False, then returns (trading_bot.py:107)
AfterStopUpdates(caller) ==
  /\ session_open' = IF caller \in {"close", "shutdown"} THEN FALSE ELSE session_open
  /\ ret' = IF caller = "shutdown" THEN ShutdownResult(FALSE) ELSE "None"
  /\ op' = "none"

\* stop_updates, lines 61-63: with a live poller, set the flag and join it;
\* with none, return at once
stop_updates(caller) ==
  IF update_thread # 0 /\ is_alive(update_thread)
    THEN /\ stop_flag' = TRUE
         /\ thr' = [thr EXCEPT ![MainThread].pc = "join"]
         /\ op' = caller
         /\ UNCHANGED <<session_open, ret>>
    ELSE /\ AfterStopUpdates(caller)
         /\ UNCHANGED <<stop_flag, thr>>

StopUpdates ==
  /\ thr[MainThread].pc = "idle"
  /\ stop_updates("stop_updates")
  /\ lastOp' = "stop_updates"
  /\ UNCHANGED <<quotes, currency_pairs, latest_data, update_thread, journal, now>>
  /\ UNCHANGED <<pubVars, stratVars, botVars, histVars, divVars>>

\* close, lines 149-150
Close ==
  /\ thr[MainThread].pc = "idle"
  /\ stop_updates("close")
  /\ lastOp' = "close"
  /\ UNCHANGED <<quotes, currency_pairs, latest_data, update_thread, journal, now>>
  /\ UNCHANGED <<pubVars, stratVars, botVars, histVars, divVars>>

\* stop_updates, line 63: join(timeout=2) returns when the thread has ended
\* or when the two seconds are over, whichever comes first; the caller then
\* runs to its end
JoinReturns ==
  /\ thr[MainThread].pc = "join"
  /\ thr' = [thr EXCEPT ![MainThread].pc = "idle"]
  /\ AfterStopUpdates(op)
  /\ UNCHANGED <<quotes, currency_pairs, latest_data, stop_flag, update_thread, journal, now,
                 lastOp>>
  /\ UNCHANGED <<pubVars, stratVars, botVars, histVars, divVars>>

\* __init__, lines 30-45: the fields, then the first _update_data on the
\* constructing thread
FeedInitCounting(pairs, rates, counted) ==
  /\ quotes = rates
  /\ currency_pairs = pairs
  /\ latest_data = EmptyDict
  /\ stop_flag = FALSE
  /\ update_thread = 0
  /\ session_open = TRUE
  /\ journal = JournalOf(<<>>)
  /\ now = 1
  /\ thr = [t \in ThreadIds |->
              IF t = MainThread
                THEN [pc |-> "fetch", i |-> 1, updated_data |-> EmptyDict,
                      timestamp |-> 0, ok |-> {}]
                ELSE Idle("unborn")]
  /\ op = "none"
  /\ ret = "None"
  /\ lastOp = "none"
  /\ pubOk = {}
  /\ pubDropped = FALSE
  /\ pubCarried = FALSE
  /\ pubData = NoTick
  /\ read_data = NotRead
  /\ late = [t \in counted |-> 0]

\* the same, with no history of late ticks kept
FeedInit(pairs, rates) == FeedInitCounting(pairs, rates, {})

\* the next step of thread t inside _update_loop or _update_data
ThreadStep(t) ==
  \/ UpdateLoopTest(t)
  \/ CallUpdateData(t)
  \/ FetchRate(t)
  \/ AcquireLock(t)
  \/ Publish(t)
  \/ SaveDataToFile(t)
  \/ SleepOver(t)

PollerStep == \E t \in ThreadIds : ThreadStep(t)

\* the feed of a specification that has none: never constructed
FeedUnused(rates) ==
  /\ quotes = rates
  /\ currency_pairs = <<>>
  /\ latest_data = EmptyDict
  /\ stop_flag = FALSE
  /\ update_thread = 0
  /\ session_open = TRUE
  /\ journal = JournalOf(<<>>)
  /\ now = 1
  /\ thr = [t \in ThreadIds |-> Idle("unborn")]
  /\ op = "none"
  /\ ret = "None"
  /\ lastOp = "none"
  /\ pubOk = {}
  /\ pubDropped = FALSE
  /\ pubCarried = FALSE
  /\ pubData = NoTick
  /\ read_data = NotRead
  /\ late = <<>>

(***************************************************************************)
(* SimpleStrategy.  threshold_percent is kept in tenths of a percent, so   *)
(* percent_change <= -threshold_percent, with                              *)
(* percent_change = (cur - prev) / prev * 100 and prev > 0, is             *)
(* (cur - prev) * 1000 <= -(threshold_percent * prev).                     *)
(***************************************************************************)
\* SimpleStrategy.currency_pair, simple_strategy.py:15
currency_pair == "USD/JPY"

\* SimpleStrategy.trade_amount, simple_strategy.py:15
trade_amount == 1000

\* {'should_trade': False}
NoTrade ==
  [should_trade |-> FALSE, action |-> "none", currency |-> "none", amount |-> 0, price |-> 0]

\* the decision dict of lines 64-71 and 75-82 (without its 'reason' text)
TradeDecision(action, pair, amount, price) ==
  [should_trade |-> TRUE, action |-> action, currency |-> pair, amount |-> amount,
   price |-> price]

\* line 62: percent_change <= -self.threshold_percent
DropsByThreshold(prev, cur, th) == (cur - prev) * 1000 <= -(th * prev)

\* a sell test that leaves out the threshold itself
RisesAboveThreshold(prev, cur, th) == (cur - prev) * 1000 > th * prev

\* line 73: percent_change >= self.threshold_percent
RisesByThreshold(prev, cur, th) == (cur - prev) * 1000 >= th * prev

\* a first call that records nothing
NoBaseline(cur) == <<>>

\* line 51: self.previous_rate = current_rate
Baseline(cur) == <<cur>>

\* a strategy that keeps its previous rate when it trades
PreviousKeptOnTrade(prev, cur, decision) == IF decision.should_trade THEN prev ELSE <<cur>>

\* make_decision, line 92: self.previous_rate = current_rate, after the
\* if/elif/else that built the decision
UpdatePrevious(prev, cur, decision) == <<cur>>

\* a strategy that forgets its baseline when the pair is missing
PreviousResetWhenAbsent(prev) == <<>>

\* make_decision, lines 42-44: the return of the missing pair comes before
\* any assignment to previous_rate
PreviousWhenAbsent(prev) == prev

\* make_decision, lines 42-94: what it returns, what it leaves in
\* previous_rate, and whether it raises (line 56 divides by previous_rate)
make_decision(market_data, prev, th) ==
  IF currency_pair \notin DOMAIN market_data
    THEN [raised |-> FALSE, decision |-> NoTrade, previous_rate |-> PreviousWhenAbsent(prev)]
    ELSE LET cur == market_data[currency_pair].rate
         IN  IF prev = <<>>
               THEN [raised |-> FALSE, decision |-> NoTrade, previous_rate |-> Baseline(cur)]
               ELSE IF prev[1] = 0
                 THEN [raised |-> TRUE, decision |-> NoTrade, previous_rate |-> prev]
                 ELSE LET decision ==
                            IF DropsByThreshold(prev[1], cur, th)
                              THEN TradeDecision("buy", currency_pair, trade_amount, cur)
                              ELSE IF RisesByThreshold(prev[1], cur, th)
                                THEN TradeDecision("sell", currency_pair, trade_amount, cur)
                                ELSE NoTrade
                      IN  [raised |-> FALSE, decision |-> decision,
                           previous_rate |-> UpdatePrevious(prev, cur, decision)]

\* the rate of the strategy's pair in a snapshot: <<>> when it is absent
RateIn(market_data) ==
  IF currency_pair \in DOMAIN market_data THEN <<market_data[currency_pair].rate>> ELSE <<>>

\* the history of one call of make_decision, last being that of the call
\* before it: gap tells that the call before was handed a snapshot without
\* the pair, observed is the rate of the pair in the latest snapshot that an
\* earlier call was handed and returned on
CallRecord(market_data, prev, r, last) ==
  [prev |-> prev, cur |-> RateIn(market_data), decision |-> r.decision,
   raised |-> r.raised, calls |-> IF last.calls < 2 THEN last.calls + 1 ELSE 2,
   gap |-> last.calls >= 1 /\ last.cur = <<>>,
   observed |-> IF last.cur # <<>> /\ ~last.raised THEN last.cur ELSE last.observed]

NoCall ==
  [prev |-> <<>>, cur |-> <<>>, decision |-> NoTrade, raised |-> FALSE, calls |-> 0,
   gap |-> FALSE, observed |-> <<>>]

\* __init__, lines 24-27
StrategyInit(thresholds) ==
  /\ threshold_percent \in thresholds
  /\ previous_rate = <<>>
  /\ sLast = NoCall

StratUnused == StrategyInit({0})

\* the rates of the snapshots handed to a strategy on its own: those of
\* the feed, and those of tests/single_trade_test.py in hundredths
\* (150.0 -> 145.5) and in ten-thousandths (1.1000 -> 1.1275, 1.2500 -> 1.2563)
StrategyRates == {0, 100, 103, 15000, 14550, 11000, 11275, 12500, 12563}

\* the snapshots a caller may hand to make_decision
Snapshots(pairs, rates) ==
  UNION {[ps -> [rate : rates, timestamp : {0}]] : ps \in SUBSET pairs}

\* one call of make_decision on a strategy of its own
MakeDecision ==
  \E market_data \in Snapshots({currency_pair, "EUR/USD"}, quotes) :
    LET r == make_decision(market_data, previous_rate, threshold_percent)
    IN  /\ previous_rate' = r.previous_rate
        /\ sLast' = CallRecord(market_data, previous_rate, r, sLast)
        /\ UNCHANGED threshold_percent
        /\ UNCHANGED <<feedVars, pubVars, botVars, histVars, divVars>>

(***************************************************************************)
(* TradingBot.                                                             *)
(***************************************************************************)
\* _execute_trade, lines 70-77: the record appended to trade_history
\* (without its 'reason' text)
TradeRecord(decision, timestamp) ==
  [timestamp |-> timestamp, action |-> decision.action, currency |-> decision.currency,
   amount |-> decision.amount, price |-> decision.price]

\* a bot that records the trades of paper mode only
ExecuteTradePaperOnly(history, decision, timestamp, mode) ==
  IF mode = "live" THEN history ELSE Append(history, TradeRecord(decision, timestamp))

\* a bot that keeps only the record of its latest trade
ExecuteTradeKeepsLatest(history, decision, timestamp, mode) ==
  <<TradeRecord(decision, timestamp)>>

\* _execute_trade, lines 80-88: both modes log (the call of the gateway is
\* commented out), then the record is appended
execute_trade(history, decision, timestamp, mode) ==
  IF mode = "live"
    THEN Append(history, TradeRecord(decision, timestamp))
    ELSE Append(history, TradeRecord(decision, timestamp))

\* _execute_trade, lines 80-86: the calls of APIConnector.execute_trade one
\* trade makes; the live branch logs, its call of the gateway is a comment
\* (line 84), and the other branch logs
gateway_calls(decision, mode) ==
  IF mode = "live" THEN 0 ELSE 0

\* a cycle that lets the exception through to its caller
CycleResultUncaught(raised) == IF raised THEN "Raise" ELSE "True"

\* check_and_execute, lines 57-61: return True, or catch, log and return False
CycleResult(raised) == IF raised THEN "False" ELSE "True"

\* the fields a shutdown may write
ShutdownFields == <<is_running, stop_flag, session_open, update_thread, trade_history>>

NoCalls ==
  [decision |-> NoTrade, lenBefore |-> 0, raised |-> FALSE, failedBefore |-> FALSE,
   shutdowns |-> 0, atCall |-> <<>>, gateway |-> 0, deciding |-> FALSE, seen |-> <<>>]

\* __init__, lines 25-29
BotInit(modes) ==
  /\ trade_mode \in modes
  /\ is_running = FALSE
  /\ trade_history = <<>>
  /\ bLast = NoCalls

BotUnused == BotInit({"paper"})

\* check_and_execute, lines 45-61, with _execute_trade, lines 70-94: the
\* snapshot is read under the lock, the strategy decides, a trade is
\* recorded and printed; print may raise once the record is appended
CheckAndExecute ==
  /\ thr[MainThread].pc = "idle"
  /\ ~ReaderBlocked
  /\ Len(trade_history) < MaxTrades
  /\ \E printRaises \in BOOLEAN :
       LET current_data == latest_data
           r == make_decision(current_data, previous_rate, threshold_percent)
           trades == ~r.raised /\ r.decision.should_trade
           raised == r.raised \/ (trades /\ printRaises)
           result == CycleResult(raised)
       IN  /\ previous_rate' = r.previous_rate
           /\ sLast' = CallRecord(current_data, previous_rate, r, sLast)
           /\ trade_history' =
                IF trades THEN execute_trade(trade_history, r.decision, now, trade_mode)
                          ELSE trade_history
           /\ ret' = result
           /\ thr' = [thr EXCEPT ![MainThread].pc = IF result = "Raise" THEN "crashed" ELSE "idle"]
           /\ lastOp' = "check_and_execute"
           /\ bLast' = [bLast EXCEPT !.decision = IF r.raised THEN NoTrade ELSE r.decision,
                                     !.lenBefore = Len(trade_history),
                                     !.raised = raised,
                                     !.failedBefore = bLast.failedBefore \/ bLast.raised,
                                     !.atCall = <<>>,
                                     !.gateway = IF trades THEN gateway_calls(r.decision, trade_mode)
                                                           ELSE 0]
  /\ UNCHANGED <<quotes, currency_pairs, latest_data, stop_flag, update_thread,
                 session_open, journal, now, op>>
  /\ UNCHANGED <<threshold_percent, trade_mode, is_running>>
  /\ UNCHANGED <<pubVars, histVars, divVars>>

\* shutdown, lines 102-105: is_running = False, then data_manager.close()
Shutdown ==
  /\ thr[MainThread].pc = "idle"
  /\ is_running' = FALSE
  /\ bLast' = [bLast EXCEPT !.shutdowns = IF @ < 2 THEN @ + 1 ELSE 2,
                            !.atCall = <<ShutdownFields>>]
  /\ stop_updates("shutdown")
  /\ lastOp' = "shutdown"
  /\ UNCHANGED <<quotes, currency_pairs, latest_data, update_thread, journal, now>>
  /\ UNCHANGED <<trade_mode, trade_history>>
  /\ UNCHANGED <<pubVars, stratVars, histVars, divVars>>

(***************************************************************************)
(* HistoricalDataManager.  A date is a day number; a series is a sequence  *)
(* of rows [date, rate] in the order of the file (the DataFrame keeps the  *)
(* order of the rows it is built from).                                    *)
(***************************************************************************)
\* the pairs a HistoricalDataManager keeps files of in the model: the
\* defaults of CorrelationStrategy, correlation_strategy.py:24-36
HistPairs == {"EUR/USD", "GBP/USD", "AUD/USD"}

\* the rates get_historical_rates answers with
HistRates == {100, 103}

\* os.path.exists(file_path) is false
Missing == [state |-> "missing", rows |-> <<>>]

\* a file _save_data has written in full
Written(rows) == [state |-> "written", rows |-> rows]

\* a file left cut short by a write that failed: json.load raises on it
Partial == [state |-> "partial", rows |-> <<>>]

\* _load_local_data, lines 67-84: the rows of the file, none when it is
\* missing or json.load raises
load_local_data(file) == IF file.state = "written" THEN file.rows ELSE <<>>

\* the dates of a series
DatesOf(rows) == {rows[i].date : i \in DOMAIN rows}

\* the rate a series gives a date it holds once
RateAt(rows, d) == rows[CHOOSE i \in DOMAIN rows : rows[i].date = d].rate

\* local_data.index.max()
MaxDateOf(rows) == CHOOSE d \in DatesOf(rows) : \A e \in DatesOf(rows) : e <= d

\* a freshness test that takes a series ending yesterday for stale
NeedUpdateFromYesterday(rows, day) == rows = <<>> \/ MaxDateOf(rows) <= day - 1

\* _need_update, lines 88-96
need_update(rows, day) == rows = <<>> \/ MaxDateOf(rows) < day - 1

\* a refresh that always asks for the five years
RequestedRangeAlwaysFull(local, day) == <<day - 5 * 365, day>>

\* update_historical_data, lines 105-113: the range asked of the API
RequestedRange(local, day) ==
  IF local = <<>> THEN <<day - 5 * 365, day>> ELSE <<MaxDateOf(local) + 1, day>>

\* the rows of seq at the indices in keep, in the order of seq
Pick(seq, keep) ==
  LET F[i \in 0 .. Len(seq)] ==
        IF i = 0 THEN <<>>
        ELSE IF i \in keep THEN Append(F[i - 1], seq[i]) ELSE F[i - 1]
  IN  F[Len(seq)]

\* combined_data[~combined_data.index.duplicated(keep='last')], line 131
KeepLast(seq) ==
  Pick(seq, {i \in DOMAIN seq : \A j \in DOMAIN seq : j > i => seq[j].date # seq[i].date})

\* update_historical_data, lines 129-133
Merge(local, new) == IF local # <<>> THEN KeepLast(local \o new) ELSE new

\* the series with the dates of S and the rates of f, ascending by date
SeriesOf(f) ==
  LET S == DOMAIN f
      G[n \in 0 .. Cardinality(S)] ==
        IF n = 0 THEN <<>>
        ELSE LET done == {G[n - 1][k].date : k \in 1 .. (n - 1)}
                 d == CHOOSE x \in S \ done : \A y \in S \ done : x <= y
             IN  Append(G[n - 1], [date |-> d, rate |-> f[d]])
  IN  G[Cardinality(S)]

\* what get_historical_rates may do (api_connector.py:76-109): answer an
\* ordered list of rows of any dates up to today, an empty list (also its
\* answer to a request that failed), or raise (a body that is no JSON object)
HistFetches(day) ==
  {[kind |-> "rows", rows |-> SeriesOf(f)] : f \in UNION {[S -> HistRates] : S \in SUBSET (1 .. day)}}
    \cup {[kind |-> "raise", rows |-> <<>>]}

\* what the open(file_path, 'w') and json.dump of _save_data may do: write
\* the file, fail before the file is touched, fail with the file cut short
SaveOutcomes == {"ok", "open_fails", "dump_fails"}

\* _save_data, lines 144-153
save_data(file, data, save) ==
  CASE save = "ok" -> Written(data)
    [] save = "open_fails" -> file
    [] OTHER -> Partial

\* a refresh that drops the file when the API gave nothing
UpdateDropsFileOnFailure(file, day, got, save) ==
  LET local == load_local_data(file)
  IN  IF got.kind = "raise" \/ got.rows = <<>>
        THEN Missing
        ELSE save_data(file, Merge(local, got.rows), save)

\* update_historical_data, lines 100-140: the file it leaves
update_historical_data(file, day, got, save) ==
  LET local == load_local_data(file)
  IN  IF got.kind = "raise" \/ got.rows = <<>>
        THEN file
        ELSE save_data(file, Merge(local, got.rows), save)

\* local_data[local_data.index >= start_date] and [... <= end_date],
\* lines 58-61; <<>> stands for None
InRange(rows, start, end) ==
  Pick(rows, {i \in DOMAIN rows :
                /\ start # <<>> => rows[i].date >= start[1]
                /\ end # <<>> => rows[i].date <= end[1]})

\* load_historical_data, lines 50-63: the file it leaves and what it returns;
\* no statement of it raises, and the exceptions of the refresh are caught in
\* update_historical_data (lines 139-140) and _load_local_data (lines 82-84)
load_historical_data(file, day, start, end, got, save) ==
  LET local == load_local_data(file)
      refresh == local = <<>> \/ need_update(local, day)
      after == IF refresh THEN update_historical_data(file, day, got, save) ELSE file
  IN  [file |-> after, refreshed |-> refresh, raised |-> "none",
       data |-> InRange(load_local_data(after), start, end)]

NoHistCall ==
  [op |-> "none", pair |-> "none", old |-> <<>>, range |-> <<>>, got |-> [kind |-> "raise", rows |-> <<>>],
   save |-> "ok", refreshed |-> FALSE, raised |-> "none", data |-> <<>>, asked |-> <<>>,
   after_failure |-> FALSE]

\* the refresh of a call got nothing from the API
FailedRefresh(h) == h.refreshed /\ (h.got.kind = "raise" \/ h.got.rows = <<>>)

HistInit(day) ==
  /\ today = day
  /\ files = [p \in HistPairs |-> Missing]
  /\ hLast = NoHistCall

HistUnused == HistInit(1)

\* the answers of the API and the outcomes of the save that a call can meet:
\* the save is reached only with rows to save
HistEnv(day) ==
  {<<got, save>> \in HistFetches(day) \X SaveOutcomes : got.rows = <<>> => save = "ok"}

\* one call of update_historical_data
UpdateHistoricalData(pair) ==
  /\ hLast.op = "none"
  /\ \E e \in HistEnv(today) :
       /\ files' = [files EXCEPT ![pair] = update_historical_data(@, today, e[1], e[2])]
       /\ hLast' = [op |-> "update", pair |-> pair, old |-> load_local_data(files[pair]),
                    range |-> RequestedRange(load_local_data(files[pair]), today),
                    got |-> e[1], save |-> e[2], refreshed |-> TRUE, raised |-> "none",
                    data |-> <<>>,
                    asked |-> <<RequestedRange(load_local_data(files[pair]), today)>>,
                    after_failure |-> hLast.after_failure]
  /\ UNCHANGED today
  /\ UNCHANGED <<feedVars, pubVars, stratVars, botVars, divVars>>

\* the API is asked only by a load that refreshes
LoadEnv(file, day) ==
  IF need_update(load_local_data(file), day)
    THEN HistEnv(day)
    ELSE {<<NoHistCall.got, "ok">>}

\* the same for a call that meets an API of the kind api: "any" answers as
\* HistFetches tells, "steady" answers one row for every day of the range
\* asked, and the save succeeds
LoadEnvOf(api, file, day) ==
  IF api = "steady"
    THEN LET local == load_local_data(file)
             range == RequestedRange(local, day)
             days == {d \in 1 .. day : range[1] <= d /\ d <= range[2]}
         IN  {e \in LoadEnv(file, day) :
                /\ e[2] = "ok"
                /\ need_update(local, day) =>
                     (e[1].kind = "rows" /\ {e[1].rows[i].date : i \in DOMAIN e[1].rows} = days)}
    ELSE LoadEnv(file, day)

\* one call of load_historical_data(pair, start, end)
LoadHistoricalData(pair, start, end) ==
  /\ hLast.op = "none"
  /\ \E e \in LoadEnv(files[pair], today) :
       LET r == load_historical_data(files[pair], today, start, end, e[1], e[2])
       IN  /\ files' = [files EXCEPT ![pair] = r.file]
           /\ hLast' = [op |-> "load", pair |-> pair, old |-> load_local_data(files[pair]),
                        range |-> <<start, end>>, got |-> e[1], save |-> e[2],
                        refreshed |-> r.refreshed, raised |-> r.raised, data |-> r.data,
                        asked |-> IF r.refreshed
                                    THEN <<RequestedRange(load_local_data(files[pair]), today)>>
                                    ELSE <<>>,
                        after_failure |-> hLast.after_failure]
  /\ UNCHANGED today
  /\ UNCHANGED <<feedVars, pubVars, stratVars, botVars, divVars>>

\* the call returns: its locals are gone; after_failure tells the next call
\* that the refresh of this one got nothing
HistReturn ==
  /\ hLast.op # "none"
  /\ hLast' = [NoHistCall EXCEPT !.after_failure = FailedRefresh(hLast)]
  /\ UNCHANGED <<today, files>>
  /\ UNCHANGED <<feedVars, pubVars, stratVars, botVars, divVars>>

\* midnight passes between two calls
NextDay ==
  /\ hLast.op = "none"
  /\ today < MaxDate
  /\ today' = today + 1
  /\ UNCHANGED <<files, hLast>>
  /\ UNCHANGED <<feedVars, pubVars, stratVars, botVars, divVars>>

(***************************************************************************)
(* CorrelationStrategy.  A change and a divergence are fractions kept as   *)
(* numerator and denominator; a correlation is kept by its sign, or as     *)
(* NaN: the code reads it only through `> 0` and np.sign.                  *)
(***************************************************************************)
primary_pair == "EUR/USD"

secondary_pairs == <<"GBP/USD", "AUD/USD">>

Abs(x) == IF x < 0 THEN -x ELSE x

Sign(x) == IF x > 0 THEN 1 ELSE IF x < 0 THEN -1 ELSE 0

NaN == [nan |-> TRUE, sign |-> 0]

Corr(s) == [nan |-> FALSE, sign |-> s]

\* get_correlation, lines 204-207: the rows of data1 and data2 at the dates
\* both hold
Aligned(data1, data2) ==
  LET common == Pick(data1, {i \in DOMAIN data1 : data1[i].date \in DatesOf(data2)})
  IN  [i \in DOMAIN common |-> [x |-> common[i].rate, y |-> RateAt(data2, common[i].date)]]

\* the sum of a sequence of numbers
SumOf(w) ==
  LET F[i \in 0 .. Len(w)] == IF i = 0 THEN 0 ELSE F[i - 1] + w[i]
  IN  F[Len(w)]

\* get_correlation, line 210, and _calculate_divergence, line 157: the last
\* value of rolling(window).corr, 0 for a series without rows
latest_correlation(al, window) ==
  IF al = <<>> THEN Corr(0)
  ELSE IF Len(al) < window THEN NaN
  ELSE LET w == SubSeq(al, Len(al) - window + 1, Len(al))
           sx == SumOf([i \in DOMAIN w |-> w[i].x])
           sy == SumOf([i \in DOMAIN w |-> w[i].y])
           cov == window * SumOf([i \in DOMAIN w |-> w[i].x * w[i].y]) - sx * sy
           varx == window * SumOf([i \in DOMAIN w |-> w[i].x * w[i].x]) - sx * sx
           vary == window * SumOf([i \in DOMAIN w |-> w[i].y * w[i].y]) - sy * sy
       IN  IF varx = 0 \/ vary = 0 THEN NaN ELSE Corr(Sign(cov))

\* lines 167-168: iloc[-2] if len > 1 else iloc[-1]
PrevClose(data) ==
  IF Len(data) > 1 THEN data[Len(data) - 1].rate ELSE data[Len(data)].rate

\* line 177: primary_change - (secondary_change * np.sign(latest_correlation))
Divergence(c, pc, sc) ==
  IF c.nan THEN [nan |-> TRUE, num |-> 0, den |-> 1]
  ELSE [nan |-> FALSE, num |-> pc.num * sc.den - c.sign * sc.num * pc.den,
        den |-> pc.den * sc.den]

\* lines 163-186: the entry of divergence_data for one secondary
DivergenceEntry(c, market_data, pair, primary_data, secondary_data) ==
  LET pprev == PrevClose(primary_data)
      sprev == PrevClose(secondary_data)
      pc == [num |-> market_data[primary_pair].rate - pprev, den |-> pprev]
      sc == [num |-> market_data[pair].rate - sprev, den |-> sprev]
  IN  [correlation |-> c, primary_change |-> pc, secondary_change |-> sc,
       divergence |-> Divergence(c, pc, sc)]

\* a scan that lets a later pair of the same abs(divergence) take the place
MaxDivergenceLastOfEquals(dd) ==
  LET F[i \in 0 .. Len(secondary_pairs)] ==
        IF i = 0 THEN [pair |-> "none", num |-> 0, den |-> 1]
        ELSE LET p == secondary_pairs[i]
             IN  IF /\ p \in DOMAIN dd
                    /\ ~dd[p].divergence.nan
                    /\ dd[p].divergence.num # 0
                    /\ Abs(dd[p].divergence.num) * F[i - 1].den
                         >= F[i - 1].num * dd[p].divergence.den
                   THEN [pair |-> p, num |-> Abs(dd[p].divergence.num),
                         den |-> dd[p].divergence.den]
                   ELSE F[i - 1]
  IN  F[Len(secondary_pairs)]

\* make_decision, lines 83-88: the largest abs(divergence) and its pair, in
\* the order of the dict
MaxDivergence(dd) ==
  LET F[i \in 0 .. Len(secondary_pairs)] ==
        IF i = 0 THEN [pair |-> "none", num |-> 0, den |-> 1]
        ELSE LET p == secondary_pairs[i]
             IN  IF /\ p \in DOMAIN dd
                    /\ ~dd[p].divergence.nan
                    /\ Abs(dd[p].divergence.num) * F[i - 1].den
                         > F[i - 1].num * dd[p].divergence.den
                   THEN [pair |-> p, num |-> Abs(dd[p].divergence.num),
                         den |-> dd[p].divergence.den]
                   ELSE F[i - 1]
  IN  F[Len(secondary_pairs)]

\* line 91: max_divergence_value > self.divergence_threshold
ExceedsThreshold(m, th) == m.num * 1000 > th * m.den

\* a direction that looks at the divergence alone
SignRuleOfDivergence(c, d) == IF d.num > 0 THEN "sell" ELSE "buy"

\* lines 98-101
SignRule(c, d) ==
  IF ~c.nan /\ c.sign > 0
    THEN (IF d.num > 0 THEN "sell" ELSE "buy")
    ELSE (IF d.num > 0 THEN "buy" ELSE "sell")

\* a strategy that goes on with the correlation it kept from an earlier call
UsedCorrelationKept(stored, pair, latest) ==
  IF pair \in DOMAIN stored THEN stored[pair] ELSE latest

\* _calculate_divergence, lines 157-177: the correlation that goes into the
\* entry is the one just computed; the one stored at line 160 is not read
UsedCorrelation(stored, pair, latest) == latest

\* make_decision, lines 79-116
Decide(dd, market_data, th) ==
  IF dd = <<>> THEN NoTrade
  ELSE LET m == MaxDivergence(dd)
       IN  IF ExceedsThreshold(m, th)
             THEN TradeDecision(SignRule(dd[m.pair].correlation, dd[m.pair].divergence),
                                primary_pair, trade_amount, market_data[primary_pair].rate)
             ELSE NoTrade

\* no call of make_decision is under way
IdleCall ==
  [pc |-> "idle", k |-> 0, market_data |-> <<>>, primary_data |-> <<>>,
   secondary_data |-> <<>>, data1 |-> <<>>, divergence_data |-> <<>>,
   fresh_data |-> <<>>, differed |-> FALSE]

NoDivCall ==
  [done |-> FALSE, market_data |-> <<>>, divergence_data |-> <<>>, decision |-> NoTrade,
   fresh |-> NoTrade, differed |-> FALSE]

\* __init__, lines 38-47
DivInit(thresholds) ==
  /\ divergence_threshold \in thresholds
  /\ historical_correlations = <<>>
  /\ dcall = IdleCall
  /\ dLast = NoDivCall

DivUnused == DivInit({0})

\* make_decision returns; fresh_data is the divergence_data of a second
\* instance with the same parameters over the same store that has never
\* decided before, differed tells that a correlation kept from an earlier
\* call was not the one found in this call
Returns(market_data, dd, fresh_data, differed) ==
  /\ dcall' = IdleCall
  /\ dLast' = [done |-> TRUE, market_data |-> market_data, divergence_data |-> dd,
               fresh |-> Decide(fresh_data, market_data, divergence_threshold),
               differed |-> differed,
               decision |-> Decide(dd, market_data, divergence_threshold)]

\* the for loop of _calculate_divergence, line 140, goes on or is over
NextSecondary(dd, fresh_data, differed) ==
  IF dcall.k < Len(secondary_pairs)
    THEN /\ dcall' = [dcall EXCEPT !.pc = "secondary", !.k = @ + 1, !.secondary_data = <<>>,
                                   !.data1 = <<>>, !.divergence_data = dd,
                                   !.fresh_data = fresh_data, !.differed = differed]
         /\ UNCHANGED dLast
    ELSE Returns(dcall.market_data, dd, fresh_data, differed)

\* start_date and end_date of _calculate_divergence, lines 128-129
Lookback == <<today - 2 * correlation_window>>

\* make_decision, lines 61-73: the checks of the snapshot handed in
BeginDecision(market_data) ==
  IF \A p \in HistPairs : p \in DOMAIN market_data
    THEN /\ dcall' = [IdleCall EXCEPT !.pc = "primary", !.market_data = market_data]
         /\ dLast' = NoDivCall
    ELSE /\ dLast' = [done |-> TRUE, market_data |-> market_data,
                      divergence_data |-> <<>>, decision |-> NoTrade,
                      fresh |-> NoTrade, differed |-> FALSE]
         /\ UNCHANGED dcall

\* make_decision, lines 61-73: a caller hands in a snapshot
DivBegin ==
  /\ dcall.pc = "idle"
  /\ \E market_data \in Snapshots(HistPairs, HistRates) : BeginDecision(market_data)
  /\ UNCHANGED <<divergence_threshold, historical_correlations>>
  /\ UNCHANGED <<feedVars, pubVars, stratVars, botVars, histVars>>

\* _calculate_divergence, lines 132-136
DivLoadPrimaryWith(api) ==
  /\ dcall.pc = "primary"
  /\ \E e \in LoadEnvOf(api, files[primary_pair], today) :
       LET r == load_historical_data(files[primary_pair], today, Lookback, <<today>>, e[1], e[2])
       IN  /\ files' = [files EXCEPT ![primary_pair] = r.file]
           /\ IF r.data = <<>>
                THEN Returns(dcall.market_data, <<>>, <<>>, FALSE)
                ELSE /\ dcall' = [dcall EXCEPT !.pc = "secondary", !.k = 1, !.primary_data = r.data]
                     /\ UNCHANGED dLast
  /\ UNCHANGED <<divergence_threshold, historical_correlations, today, hLast>>
  /\ UNCHANGED <<feedVars, pubVars, stratVars, botVars>>

\* _calculate_divergence: the call meets any answer of the API
DivLoadPrimary == DivLoadPrimaryWith("any")

\* _calculate_divergence, lines 142-146
DivLoadSecondaryWith(api) ==
  /\ dcall.pc = "secondary"
  /\ LET pair == secondary_pairs[dcall.k]
     IN  \E e \in LoadEnvOf(api, files[pair], today) :
           LET r == load_historical_data(files[pair], today, Lookback, <<today>>, e[1], e[2])
           IN  /\ files' = [files EXCEPT ![pair] = r.file]
               /\ IF r.data = <<>>
                    THEN NextSecondary(dcall.divergence_data, dcall.fresh_data, dcall.differed)
                    ELSE /\ dcall' = [dcall EXCEPT !.pc = "corr1", !.secondary_data = r.data]
                         /\ UNCHANGED dLast
  /\ UNCHANGED <<divergence_threshold, historical_correlations, today, hLast>>
  /\ UNCHANGED <<feedVars, pubVars, stratVars, botVars>>

\* _calculate_divergence: the call meets any answer of the API
DivLoadSecondary == DivLoadSecondaryWith("any")

\* get_correlation, line 201
DivCorrLoad1With(api) ==
  /\ dcall.pc = "corr1"
  /\ \E e \in LoadEnvOf(api, files[primary_pair], today) :
       LET r == load_historical_data(files[primary_pair], today, Lookback, <<today>>, e[1], e[2])
       IN  /\ files' = [files EXCEPT ![primary_pair] = r.file]
           /\ dcall' = [dcall EXCEPT !.pc = "corr2", !.data1 = r.data]
  /\ UNCHANGED <<divergence_threshold, historical_correlations, dLast, today, hLast>>
  /\ UNCHANGED <<feedVars, pubVars, stratVars, botVars>>

\* get_correlation: the call meets any answer of the API
DivCorrLoad1 == DivCorrLoad1With("any")

\* get_correlation, lines 202-210, and _calculate_divergence, lines 157-186
DivCorrLoad2With(api) ==
  /\ dcall.pc = "corr2"
  /\ LET pair == secondary_pairs[dcall.k]
     IN  \E e \in LoadEnvOf(api, files[pair], today) :
           LET r == load_historical_data(files[pair], today, Lookback, <<today>>, e[1], e[2])
               c == latest_correlation(Aligned(dcall.data1, r.data), correlation_window)
               entry == DivergenceEntry(UsedCorrelation(historical_correlations, pair, c),
                                        dcall.market_data, pair, dcall.primary_data,
                                        dcall.secondary_data)
               dd == [p \in DOMAIN dcall.divergence_data \cup {pair} |->
                        IF p = pair THEN entry ELSE dcall.divergence_data[p]]
               fresh_entry == DivergenceEntry(UsedCorrelation(<<>>, pair, c),
                                              dcall.market_data, pair, dcall.primary_data,
                                              dcall.secondary_data)
               fresh_data == [p \in DOMAIN dcall.fresh_data \cup {pair} |->
                                IF p = pair THEN fresh_entry ELSE dcall.fresh_data[p]]
               differed == \/ dcall.differed
                           \/ /\ pair \in DOMAIN historical_correlations
                              /\ historical_correlations[pair] # c
           IN  /\ files' = [files EXCEPT ![pair] = r.file]
               /\ historical_correlations' =
                    [p \in DOMAIN historical_correlations \cup {pair} |->
                       IF p = pair THEN c ELSE historical_correlations[p]]
               /\ NextSecondary(dd, fresh_data, differed)
  /\ UNCHANGED <<divergence_threshold, today, hLast>>
  /\ UNCHANGED <<feedVars, pubVars, stratVars, botVars>>

\* get_correlation: the call meets any answer of the API
DivCorrLoad2 == DivCorrLoad2With("any")

(***************************************************************************)
(* TradingBot with a CorrelationStrategy, as multi_trade_test.py sets it   *)
(* up: each cycle hands the next snapshot of the data manager to           *)
(* make_decision and records the trade it returns.                         *)
(***************************************************************************)
\* the rates the data manager quotes for a pair
LoopQuotes(pair) == IF pair = primary_pair THEN {100, 101} ELSE {200, 202}

\* the snapshots the data manager returns: every pair of the strategy quoted
LoopSnapshots ==
  {[p \in HistPairs |-> [rate |-> q[p], timestamp |-> 0]] :
     q \in {f \in [HistPairs -> {100, 101, 200, 202}] : \A p \in HistPairs : f[p] \in LoopQuotes(p)}}

\* check_and_execute, trading_bot.py:45-49: get_latest_data, then the call
\* of strategy.make_decision; bLast.seen keeps the snapshots of the cycles
LoopBegin ==
  /\ dcall.pc = "idle"
  /\ ~bLast.deciding
  /\ Len(bLast.seen) < MaxCycles
  /\ \E market_data \in LoopSnapshots :
       /\ BeginDecision(market_data)
       /\ bLast' = [bLast EXCEPT !.deciding = TRUE, !.seen = Append(@, market_data),
                                 !.lenBefore = Len(trade_history)]
  /\ UNCHANGED <<divergence_threshold, historical_correlations>>
  /\ UNCHANGED <<trade_mode, is_running, trade_history>>
  /\ UNCHANGED <<feedVars, pubVars, stratVars, histVars>>

\* check_and_execute, trading_bot.py:52-61, with _execute_trade: the
\* decision has come back; a trade is recorded and printed
LoopEnd ==
  /\ bLast.deciding
  /\ dLast.done
  /\ \E printRaises \in BOOLEAN :
       LET trades == dLast.decision.should_trade
           raised == trades /\ printRaises
       IN  /\ trade_history' =
                IF trades THEN execute_trade(trade_history, dLast.decision, now, trade_mode)
                          ELSE trade_history
           /\ ret' = CycleResult(raised)
           /\ bLast' = [bLast EXCEPT !.deciding = FALSE,
                                     !.decision = dLast.decision,
                                     !.raised = raised,
                                     !.gateway = IF trades
                                                   THEN gateway_calls(dLast.decision, trade_mode)
                                                   ELSE 0]
  /\ lastOp' = "check_and_execute"
  /\ UNCHANGED <<quotes, currency_pairs, latest_data, stop_flag, update_thread, session_open,
                 journal, thr, now, op>>
  /\ UNCHANGED <<trade_mode, is_running>>
  /\ UNCHANGED <<pubVars, stratVars, histVars, divVars>>

(***************************************************************************)
(* Specifications.                                                         *)
(***************************************************************************)
\* The feed on its own: a controlling thread constructs the manager and
\* then calls start_updates, stop_updates and close in any order.
InitFeed ==
  /\ FeedInit(SubSeq(AllPairs, 1, NumPairs), {100})
  /\ StratUnused
  /\ BotUnused
  /\ HistUnused
  /\ DivUnused

NextFeed ==
  \/ PollerStep
  \/ CtorStart
  \/ StartUpdates
  \/ StopUpdates
  \/ Close
  \/ JoinReturns

SpecFeed == InitFeed /\ [][NextFeed]_vars

\* The feed with the scheduling the code relies on: a thread that can take
\* a step takes it (each fetch, file write and sleep ends), and
\* join(timeout=2) returns.
FairFeed ==
  /\ \A t \in ThreadIds : WF_vars(ThreadStep(t))
  /\ WF_vars(JoinReturns)
  /\ WF_vars(CtorStart)

\* a feed of the first configured pair
InitFeedFair ==
  /\ FeedInitCounting(SubSeq(AllPairs, 1, 1), {100}, PollerIds)
  /\ StratUnused
  /\ BotUnused
  /\ HistUnused
  /\ DivUnused

SpecFeedFair == InitFeedFair /\ [][NextFeed]_vars /\ FairFeed

\* SimpleStrategy on its own, called with any snapshots.
\* The feed and a thread that reads it: the constructor, the poller and
\* calls of get_latest_data between their steps.
InitReader ==
  /\ FeedInit(SubSeq(AllPairs, 1, 2), {100, 103})
  /\ StratUnused
  /\ BotUnused
  /\ HistUnused
  /\ DivUnused

NextReader ==
  \/ PollerStep
  \/ CtorStart
  \/ GetLatestData

SpecReader == InitReader /\ [][NextReader]_vars

InitStrategy ==
  /\ FeedUnused(StrategyRates)
  /\ StrategyInit({10, 20, 30})
  /\ BotUnused
  /\ HistUnused
  /\ DivUnused

NextStrategy == MakeDecision

SpecStrategy == InitStrategy /\ [][NextStrategy]_vars

\* TradingBot with a SimpleStrategy over a feed of the strategy's pair: the
\* main thread constructs them and then calls check_and_execute and
\* shutdown in any order, while the poller runs.
InitBot ==
  /\ FeedInit(<<currency_pair>>, {0, 100, 103})
  /\ StrategyInit({30})
  /\ BotInit({"paper", "live"})
  /\ HistUnused
  /\ DivUnused

NextBot ==
  \/ PollerStep
  \/ CtorStart
  \/ CheckAndExecute
  \/ Shutdown
  \/ JoinReturns

SpecBot == InitBot /\ [][NextBot]_vars

\* HistoricalDataManager on its own, with one pair's file.
InitHist ==
  /\ FeedUnused({})
  /\ StratUnused
  /\ BotUnused
  /\ HistInit(1)
  /\ DivUnused

NextHist ==
  \/ UpdateHistoricalData("EUR/USD")
  \/ \E start \in {<<>>, <<today - 1>>}, end \in {<<>>, <<today>>} :
       LoadHistoricalData("EUR/USD", start, end)
  \/ HistReturn
  \/ NextDay

SpecHist == InitHist /\ [][NextHist]_vars

\* CorrelationStrategy over its own HistoricalDataManager, on day 2: the
\* first day on which a series can hold two rows, so that the previous
\* close differs from the last row and two series can move together or apart.
InitDiv ==
  /\ FeedUnused({})
  /\ StratUnused
  /\ BotUnused
  /\ HistInit(2)
  /\ DivInit({0, 29, 30, 60})

NextDiv ==
  \/ DivBegin
  \/ DivLoadPrimary
  \/ DivLoadSecondary
  \/ DivCorrLoad1
  \/ DivCorrLoad2

SpecDiv == InitDiv /\ [][NextDiv]_vars

\* midnight passes between two calls of make_decision
DivNextDay ==
  /\ dcall.pc = "idle"
  /\ NextDay

\* One CorrelationStrategy kept over the days behind a steady API, so that
\* the store it reads grows between two of its decisions.
InitDivDays ==
  /\ FeedUnused({})
  /\ StratUnused
  /\ BotUnused
  /\ HistInit(1)
  /\ DivInit({20})

NextDivDays ==
  \/ DivBegin
  \/ DivLoadPrimaryWith("steady")
  \/ DivLoadSecondaryWith("steady")
  \/ DivCorrLoad1With("steady")
  \/ DivCorrLoad2With("steady")
  \/ DivNextDay

SpecDivDays == InitDivDays /\ [][NextDivDays]_vars

\* The bot driving a CorrelationStrategy for MaxCycles cycles, with the
\* threshold of test_no_divergence_no_trade (0.02).
InitDivLoop ==
  /\ FeedUnused({})
  /\ StratUnused
  /\ BotInit({"paper"})
  /\ HistInit(2)
  /\ DivInit({20})

NextDivLoop ==
  \/ LoopBegin
  \/ DivLoadPrimary
  \/ DivLoadSecondary
  \/ DivCorrLoad1
  \/ DivCorrLoad2
  \/ LoopEnd

SpecDivLoop == InitDivLoop /\ [][NextDivLoop]_vars

(***************************************************************************)
(* C1: after a poll tick has published, the keys of latest_data are        *)
(* exactly the pairs whose fetch returned a rate in that tick; a pair that *)
(* was in the snapshot before and whose fetch failed in the tick is gone.  *)
(***************************************************************************)
C1_SnapshotIsThisTick ==
  /\ DOMAIN latest_data = pubOk
  /\ ~pubCarried

C1_Witness ==
  /\ pubDropped
  /\ pubOk # {}
  /\ \E t \in PollerIds : thr[t].pc = "sleep"

(***************************************************************************)
(* C2: after update_historical_data has merged a fetch that holds dates    *)
(* already in the file and has saved the result, the file has no date      *)
(* twice, its dates ascend strictly, and a date that was in the file and   *)
(* in the fetch carries the fetched rate.                                  *)
(***************************************************************************)
\* the update before this state merged an overlapping fetch and saved it
MergedOverlap ==
  /\ hLast.op = "update"
  /\ hLast.old # <<>>
  /\ hLast.got.kind = "rows"
  /\ hLast.save = "ok"
  /\ DatesOf(hLast.old) \cap DatesOf(hLast.got.rows) # {}

C2_UniqueAndNewest ==
  MergedOverlap =>
    LET rows == files[hLast.pair].rows
    IN  /\ \A i, j \in DOMAIN rows : i # j => rows[i].date # rows[j].date
        /\ \A d \in DatesOf(hLast.old) \cap DatesOf(hLast.got.rows) :
             RateAt(rows, d) = RateAt(hLast.got.rows, d)

C2_MergeAscending ==
  MergedOverlap =>
    LET rows == files[hLast.pair].rows
    IN  /\ \A i, j \in DOMAIN rows : i # j => rows[i].date # rows[j].date
        /\ \A i, j \in DOMAIN rows : i < j => rows[i].date < rows[j].date
        /\ \A d \in DatesOf(hLast.old) \cap DatesOf(hLast.got.rows) :
             RateAt(rows, d) = RateAt(hLast.got.rows, d)

(***************************************************************************)
(* C3: with a previous rate prev > 0 and the pair in the snapshot at rate  *)
(* cur, make_decision returns a trade iff |cur - prev| / prev * 100 is at  *)
(* least the threshold; the trade is a buy at cur when the rate dropped    *)
(* and a sell at cur when it rose; otherwise it returns NoTrade.  The      *)
(* three scenarios of the tests are instances.                             *)
(***************************************************************************)
C3_ThresholdDecision ==
  (sLast.prev # <<>> /\ sLast.cur # <<>> /\ ~sLast.raised) =>
    LET prev == sLast.prev[1]
        cur == sLast.cur[1]
        d == sLast.decision
    IN  /\ d.should_trade <=> Abs(cur - prev) * 1000 >= threshold_percent * prev
        /\ (d.should_trade /\ cur < prev) =>
             d = TradeDecision("buy", currency_pair, trade_amount, cur)
        /\ (d.should_trade /\ cur > prev) =>
             d = TradeDecision("sell", currency_pair, trade_amount, cur)
        /\ ~d.should_trade => d = NoTrade
        /\ (prev = 15000 /\ cur = 14550 /\ threshold_percent = 20) =>
             (d.action = "buy" /\ d.price = 14550)
        /\ (prev = 11000 /\ cur = 11275 /\ threshold_percent = 20) => d.action = "sell"
        /\ (prev = 12500 /\ cur = 12563 /\ threshold_percent = 10) => d = NoTrade

C3_Witness ==
  /\ sLast.prev = <<100>>
  /\ sLast.cur = <<103>>
  /\ threshold_percent = 30
  /\ sLast.decision.action = "sell"

(***************************************************************************)
(* C4: the first call of make_decision on a fresh strategy returns NoTrade *)
(* and, given a rate, leaves that rate in previous_rate, whatever the      *)
(* threshold.                                                              *)
(***************************************************************************)
C4_FirstCallBaseline ==
  sLast.calls = 1 =>
    /\ sLast.decision = NoTrade
    /\ ~sLast.raised
    /\ sLast.cur # <<>> => previous_rate = sLast.cur

C4_Witness ==
  /\ sLast.calls = 1
  /\ sLast.cur = <<15000>>
  /\ previous_rate = <<15000>>
  /\ threshold_percent = 10

(***************************************************************************)
(* C5: when make_decision of CorrelationStrategy has returned, and the     *)
(* secondary it selected (the largest |d|, the first of equals) has a      *)
(* divergence d with |d| above divergence_threshold and a correlation c,   *)
(* the decision is a trade, a sell if and only if (c > 0 and d > 0) or     *)
(* (c <= 0 and d < 0) and a buy otherwise; when |d| is at most the         *)
(* threshold for every secondary the decision is NoTrade.                  *)
(***************************************************************************)
\* |d| of an entry of divergence_data is above the threshold
AboveThreshold(e) ==
  /\ ~e.divergence.nan
  /\ Abs(e.divergence.num) * 1000 > divergence_threshold * e.divergence.den

\* |d| of an entry of divergence_data is at most the threshold
WithinThreshold(e) ==
  /\ ~e.divergence.nan
  /\ Abs(e.divergence.num) * 1000 <= divergence_threshold * e.divergence.den

\* the place of a pair in secondary_pairs
PlaceOf(p) == CHOOSE i \in DOMAIN secondary_pairs : secondary_pairs[i] = p

\* p has the largest |d| of dd, and is the first that has it
IsSelected(dd, p) ==
  /\ p \in DOMAIN dd
  /\ ~dd[p].divergence.nan
  /\ \A q \in DOMAIN dd \ {p} :
       ~dd[q].divergence.nan =>
         LET a == Abs(dd[p].divergence.num) * dd[q].divergence.den
             b == Abs(dd[q].divergence.num) * dd[p].divergence.den
         IN  a > b \/ (a = b /\ PlaceOf(p) < PlaceOf(q))

\* the row of the sign rule that an entry falls in gives a sell
SellRow(e) ==
  \/ e.correlation.sign > 0 /\ e.divergence.num > 0
  \/ e.correlation.sign <= 0 /\ e.divergence.num < 0

C5_DivergenceDecision ==
  dLast.done =>
    LET dd == dLast.divergence_data
        d == dLast.decision
    IN  /\ \A p \in DOMAIN dd :
             (IsSelected(dd, p) /\ AboveThreshold(dd[p])) =>
               /\ d.should_trade
               /\ d.action = "sell" <=> SellRow(dd[p])
               /\ d.action = "buy" <=> ~SellRow(dd[p])
        /\ (\A p \in DOMAIN dd : WithinThreshold(dd[p])) => d = NoTrade

\* a sell decided from the second secondary, below a correlation that is
\* not positive
C5_Witness ==
  /\ dLast.done
  /\ dLast.decision.action = "sell"
  /\ DOMAIN dLast.divergence_data = {"GBP/USD", "AUD/USD"}
  /\ IsSelected(dLast.divergence_data, "AUD/USD")
  /\ AboveThreshold(dLast.divergence_data["AUD/USD"])
  /\ dLast.divergence_data["AUD/USD"].correlation.sign < 0
  /\ dLast.divergence_data["AUD/USD"].divergence.num < 0

(***************************************************************************)
(* C6: a cycle appends exactly one record, that of the decision, when the  *)
(* strategy returns a trade, in paper and in live mode alike, and leaves   *)
(* trade_history as it was when the strategy returns NoTrade.              *)
(***************************************************************************)
C6_OneRecordPerTrade ==
  lastOp = "check_and_execute" =>
    IF bLast.decision.should_trade
      THEN /\ Len(trade_history) = bLast.lenBefore + 1
           /\ LET rec == trade_history[Len(trade_history)]
              IN  /\ rec.action = bLast.decision.action
                  /\ rec.currency = bLast.decision.currency
                  /\ rec.amount = bLast.decision.amount
                  /\ rec.price = bLast.decision.price
      ELSE Len(trade_history) = bLast.lenBefore

C6_Witness ==
  /\ lastOp = "check_and_execute"
  /\ trade_mode = "live"
  /\ bLast.decision.action = "buy"
  /\ Len(trade_history) = 2

(***************************************************************************)
(* C7: a cycle in which an exception is raised returns False, a cycle      *)
(* without one returns True, nothing propagates to the caller, and after a *)
(* failed cycle the bot takes the next call.                               *)
(***************************************************************************)
C7_ExceptionsCaught ==
  /\ thr[MainThread].pc # "crashed"
  /\ lastOp = "check_and_execute" =>
       /\ ret = (IF bLast.raised THEN "False" ELSE "True")
       /\ thr[MainThread].pc = "idle"

C7_Witness ==
  /\ lastOp = "check_and_execute"
  /\ bLast.failedBefore
  /\ ret = "True"
  /\ bLast.decision.should_trade

(***************************************************************************)
(* C8: once shutdown has been called, no call of check_and_execute         *)
(* evaluates the strategy or appends to trade_history.                     *)
(***************************************************************************)
C8_NoCycleAfterShutdown ==
  [][bLast.shutdowns >= 1 =>
       /\ trade_history' = trade_history
       /\ previous_rate' = previous_rate
       /\ sLast' = sLast]_vars

C10_OnePoller ==
  /\ Cardinality({t \in PollerIds : is_alive(t)}) <= 1
  /\ Cardinality({t \in ThreadIds : InUpdateData(t)}) <= 1
  /\ lastOp = "start_noop" => \A t \in PollerIds : is_alive(t) => t = update_thread

C10_Witness ==
  /\ lastOp = "start_noop"
  /\ update_thread = 2
  /\ InUpdateData(2)
  /\ thr[1].pc = "dead"

(***************************************************************************)
(* C11: a call of stop_updates (or of close) that waits in join always     *)
(* returns, and a poller that is alive while the stop flag is set          *)
(* eventually exits, given that each of its fetches, writes and sleeps     *)
(* ends.                                                                   *)
(***************************************************************************)
C11_StopReturnsPollerExits ==
  /\ (thr[MainThread].pc = "join") ~> (thr[MainThread].pc = "idle")
  /\ \A t \in PollerIds : (stop_flag /\ is_alive(t)) ~> ~is_alive(t)

\* stop_updates has returned while the poller was still inside a tick, and
\* the poller has ended since
C11_Witness ==
  /\ lastOp = "stop_updates"
  /\ thr[MainThread].pc = "idle"
  /\ stop_flag
  /\ thr[1].pc = "dead"
  /\ Len(journal.records) >= 2

(***************************************************************************)
(* C12: an exception raised inside a poll tick does not end the poller: it *)
(* goes to the backoff sleep, from there to the loop test, and from the    *)
(* loop test into another tick unless the stop flag is set; a poller ends  *)
(* only at a loop test that finds the stop flag set.  Every backoff is     *)
(* followed by another tick or by the exit on the stop flag (or the run    *)
(* has no tick left to start).                                             *)
(***************************************************************************)
\* the steps a poller takes around an exception
SurvivesStep(t) ==
  /\ (thr[t].pc = "fetch" /\ thr'[t].pc \notin {"fetch", "publish"}) => thr'[t].pc = "backoff"
  /\ (thr[t].pc = "backoff" /\ thr'[t] # thr[t]) => thr'[t].pc = "check"
  /\ (thr[t].pc = "check" /\ thr'[t] # thr[t]) =>
       IF stop_flag THEN thr'[t].pc = "dead" ELSE thr'[t].pc = "call"
  /\ (thr[t].pc # "dead" /\ thr'[t].pc = "dead") => (stop_flag /\ thr[t].pc = "check")

C12_PollerSurvivesErrors ==
  /\ [][\A t \in PollerIds : SurvivesStep(t)]_vars
  /\ \A t \in PollerIds :
       (thr[t].pc = "backoff") ~> (InUpdateData(t) \/ thr[t].pc = "dead" \/ now = MaxTicks)

\* the first poller is inside its second tick while the snapshot is still
\* the constructor's: its first tick raised before it published
C12_Witness ==
  /\ thr[1].pc = "fetch"
  /\ thr[1].timestamp = 2
  /\ ~stop_flag
  /\ \E p \in DOMAIN latest_data : latest_data[p].timestamp = 0

(***************************************************************************)
(* C13: when a poll tick is abandoned because a fetch raised, the step     *)
(* that abandons it leaves latest_data equal to the partial snapshot of    *)
(* the pairs fetched so far in that tick.                                  *)
(***************************************************************************)
C13_PartialSnapshotPublished ==
  [][\A t \in PollerIds :
       (thr[t].pc = "fetch" /\ thr'[t].pc = "backoff") =>
         latest_data' = thr[t].updated_data]_vars

(***************************************************************************)
(* C14: a value returned by get_latest_data, whatever the poller was doing *)
(* when it was called, is the complete dict that one poll tick published:  *)
(* it equals the dict of the tick that published last, all its entries     *)
(* carry the timestamp of that tick, and no entry is of another tick.      *)
(***************************************************************************)
C14_ReadIsOneTick ==
  read_data.called =>
    /\ read_data.value = read_data.tick.snapshot
    /\ \A p \in DOMAIN read_data.value :
         read_data.value[p].timestamp = read_data.tick.timestamp

C14_Witness ==
  /\ read_data.called
  /\ read_data.midTick
  /\ Cardinality(DOMAIN read_data.value) = 2
  /\ read_data.tick.timestamp >= 1


(***************************************************************************)
(* C15: a call of load_historical_data that found no rows in the file and  *)
(* whose refresh left none fails with DataUnavailable; every other call    *)
(* raises nothing and returns the rows of the file, those with start <=    *)
(* date <= end.                                                            *)
(***************************************************************************)
C15_FailsOnlyWithNothing ==
  hLast.op = "load" =>
    LET cached == load_local_data(files[hLast.pair])
    IN  IF hLast.old = <<>> /\ cached = <<>>
          THEN hLast.raised = "DataUnavailable"
          ELSE /\ hLast.raised = "none"
               /\ hLast.data = InRange(cached, hLast.range[1], hLast.range[2])


C17_SaveIsAtomic ==
  (hLast.op # "none" /\ hLast.refreshed /\ hLast.got.rows # <<>>) =>
    LET stored == load_local_data(files[hLast.pair])
    IN  /\ files[hLast.pair].state # "partial"
        /\ \/ stored = hLast.old
           \/ stored = Merge(hLast.old, hLast.got.rows)


\* the step of thread t ends a tick with one record of it appended
AppendsItsRecord(t) ==
  (thr[t].pc = "save" /\ thr'[t].pc # "save") =>
    /\ ~journal'.cut
    /\ Len(journal'.records) = Len(journal.records) + 1
    /\ SubSeq(journal'.records, 1, Len(journal.records)) = journal.records
    /\ journal'.records[Len(journal'.records)].rates = thr[t].updated_data

(***************************************************************************)
(* C18: the step that ends a published poll tick appends to the day's      *)
(* journal exactly one record, which holds the dict that tick published,   *)
(* and leaves the records before it as they were; no other step changes    *)
(* the journal.  Hence after k published ticks the journal holds k records *)
(* in tick order.                                                          *)
(***************************************************************************)
C18_OneRecordPerTick ==
  [][/\ \A t \in ThreadIds : AppendsItsRecord(t)
     /\ (\A t \in ThreadIds : thr[t].pc # "save") => journal' = journal]_vars


(***************************************************************************)
(* C19: a cycle whose strategy returned a trade honours trade_mode: in     *)
(* live mode it calls APIConnector.execute_trade exactly once with the     *)
(* decision, in paper mode it does not call it.                            *)
(***************************************************************************)
C19_ModeHonoured ==
  (lastOp = "check_and_execute" /\ bLast.decision.should_trade) =>
    bLast.gateway = (IF trade_mode = "live" THEN 1 ELSE 0)


(***************************************************************************)
(* C20: trade_history only grows at its end: every step of the bot, a      *)
(* cycle or a shutdown, before or after a shutdown, leaves the records it  *)
(* held in place and unchanged, so the history of every earlier state is a *)
(* prefix of the history of every later one.                               *)
(***************************************************************************)
C20_HistoryAppendOnly ==
  [][/\ Len(trade_history') >= Len(trade_history)
     /\ SubSeq(trade_history', 1, Len(trade_history)) = trade_history]_vars

C20_Witness ==
  /\ Len(trade_history) >= 2
  /\ trade_history[1] # trade_history[2]
  /\ bLast.shutdowns >= 1
  /\ lastOp = "shutdown"
  /\ thr[MainThread].pc = "idle"


\* from snapshot a to snapshot b every pair rises by the same percentage,
\* and that percentage is below the threshold th (in thousandths)
SameRiseBelow(a, b, th) ==
  /\ \A p \in HistPairs :
       /\ b[p].rate > a[p].rate
       /\ (b[p].rate - a[p].rate) * 1000 < th * a[p].rate
  /\ \A p, q \in HistPairs :
       (b[p].rate - a[p].rate) * a[q].rate = (b[q].rate - a[q].rate) * a[p].rate

\* the decision of the last call used a positive correlation for every
\* secondary
AllCorrelationsPositive ==
  /\ DOMAIN dLast.divergence_data = {secondary_pairs[k] : k \in DOMAIN secondary_pairs}
  /\ \A p \in DOMAIN dLast.divergence_data :
       /\ ~dLast.divergence_data[p].correlation.nan
       /\ dLast.divergence_data[p].correlation.sign > 0

(***************************************************************************)
(* C21: when the bot has run two cycles over two snapshots in which the    *)
(* primary and the secondaries rose by the same percentage, a percentage   *)
(* below divergence_threshold, and the correlations are positive, no cycle *)
(* has recorded a trade: trade_history is empty.                           *)
(***************************************************************************)
C21_NoDivergenceNoTrade ==
  ( /\ Len(bLast.seen) = 2
    /\ ~bLast.deciding
    /\ SameRiseBelow(bLast.seen[1], bLast.seen[2], divergence_threshold)
    /\ AllCorrelationsPositive ) =>
    trade_history = <<>>


(***************************************************************************)
(* C22: a thread holds data_lock only at the assignment that swaps in the  *)
(* new snapshot; while a thread fetches a rate or writes the journal no    *)
(* thread holds the lock, and a reader, get_latest_data, is not blocked.   *)
(***************************************************************************)
C22_LockOnlyForSwap ==
  /\ \A t \in ThreadIds : holds_data_lock(t) => thr[t].pc = "swap"
  /\ (\E t \in ThreadIds : thr[t].pc \in {"fetch", "save"}) => ~ReaderBlocked
  /\ (thr[MainThread].pc = "idle" /\ \E t \in PollerIds : thr[t].pc \in {"fetch", "save"})
       => ENABLED GetLatestData

C22_Witness ==
  /\ read_data.called
  /\ "fetch" \in read_data.during
  /\ \E t \in PollerIds : thr[t].pc = "swap"


(***************************************************************************)
(* C23: once the stop flag is set the poller sees it at its next loop      *)
(* test: a poller begins at most one tick with the flag set (the one whose *)
(* loop test came before the signal), and a poller that is alive with the  *)
(* flag set eventually exits, having begun at most that one tick.          *)
(***************************************************************************)
C23_StopSeenWithinOneTick ==
  /\ [](\A t \in PollerIds : late[t] <= 1)
  /\ \A t \in PollerIds :
       (stop_flag /\ is_alive(t)) ~> (thr[t].pc = "dead" /\ late[t] <= 1)

C23_Witness ==
  /\ stop_flag
  /\ thr[1].pc = "dead"
  /\ late[1] = 1
  /\ thr[MainThread].pc = "idle"


(***************************************************************************)
(* C24: the correlation make_decision uses for a secondary is never        *)
(* undefined: where the trailing correlation has no value it is 0; with    *)
(* correlation 0 the divergence is the primary's change, and such a        *)
(* secondary takes part in the selection: the call trades iff the          *)
(* divergence of some secondary it computed exceeds the threshold.         *)
(***************************************************************************)
C24_UndefinedCorrelationIsZero ==
  dLast.done =>
    LET dd == dLast.divergence_data
    IN  /\ \A p \in DOMAIN dd :
             /\ ~dd[p].correlation.nan
             /\ ~dd[p].divergence.nan
             /\ dd[p].correlation.sign = 0 =>
                   dd[p].divergence.num * dd[p].primary_change.den
                     = dd[p].primary_change.num * dd[p].divergence.den
        /\ dLast.decision.should_trade <=>
             \E p \in DOMAIN dd :
               Abs(dd[p].divergence.num) * 1000 > divergence_threshold * dd[p].divergence.den


(***************************************************************************)
(* C25: a call of make_decision that computed a percent change (the pair   *)
(* is in the snapshot, a previous rate was recorded, the division did not  *)
(* raise) leaves the current rate in previous_rate, whether it returned a  *)
(* buy, a sell or NoTrade.                                                 *)
(***************************************************************************)
C25_PreviousAlwaysUpdated ==
  (sLast.prev # <<>> /\ sLast.cur # <<>> /\ ~sLast.raised) =>
    previous_rate = sLast.cur

C25_Witness ==
  /\ sLast.prev = <<103>>
  /\ sLast.cur = <<100>>
  /\ sLast.decision.action = "buy"
  /\ previous_rate = <<100>>


(***************************************************************************)
(* C26: a refresh, called directly or by a load, asks the API for the      *)
(* range [today - 5 * 365 days, today] when the file held no rows, and for *)
(* exactly [latest date of the file + 1, today] when it held some.         *)
(***************************************************************************)
C26_RefreshRange ==
  hLast.asked # <<>> =>
    hLast.asked[1] = (IF hLast.old = <<>>
                        THEN <<today - 5 * 365, today>>
                        ELSE <<MaxDateOf(hLast.old) + 1, today>>)

C26_Witness ==
  /\ hLast.op = "load"
  /\ hLast.old # <<>>
  /\ MaxDateOf(hLast.old) = 1
  /\ hLast.asked = << <<2, 3>> >>
  /\ today = 3


(***************************************************************************)
(* C27: a trade returned by make_decision of CorrelationStrategy is the    *)
(* one the sign rule gives for the correlation and the divergence of the   *)
(* secondary with the largest |divergence| among the entries of            *)
(* divergence_data, the first of equals, and that |divergence| is strictly *)
(* above divergence_threshold; when the largest |divergence| is not above  *)
(* the threshold the decision is NoTrade.                                  *)
(***************************************************************************)
\* two entries of divergence_data have the same |divergence|
SameSize(a, b) ==
  /\ ~a.divergence.nan
  /\ ~b.divergence.nan
  /\ Abs(a.divergence.num) * b.divergence.den = Abs(b.divergence.num) * a.divergence.den

C27_LargestDivergenceDecides ==
  dLast.done =>
    LET dd == dLast.divergence_data
        d == dLast.decision
    IN  /\ d.should_trade =>
             \E p \in DOMAIN dd :
               /\ IsSelected(dd, p)
               /\ AboveThreshold(dd[p])
               /\ d.action = (IF SellRow(dd[p]) THEN "sell" ELSE "buy")
        /\ \A p \in DOMAIN dd :
             (IsSelected(dd, p) /\ ~AboveThreshold(dd[p])) => d = NoTrade

\* two secondaries of the same |divergence| that the sign rule tells apart,
\* and the trade is the one of the first
C27_Witness ==
  /\ dLast.done
  /\ dLast.decision.should_trade
  /\ DOMAIN dLast.divergence_data = {secondary_pairs[1], secondary_pairs[2]}
  /\ SameSize(dLast.divergence_data[secondary_pairs[1]],
              dLast.divergence_data[secondary_pairs[2]])
  /\ SellRow(dLast.divergence_data[secondary_pairs[1]])
       # SellRow(dLast.divergence_data[secondary_pairs[2]])
  /\ dLast.decision.action
       = (IF SellRow(dLast.divergence_data[secondary_pairs[1]]) THEN "sell" ELSE "buy")


(***************************************************************************)
(* C28: the decision make_decision of CorrelationStrategy returns is the   *)
(* one an instance with the same parameters over the same store returns    *)
(* for the same snapshot when it has no stored correlations at all,        *)
(* whatever historical_correlations held when the call began.              *)
(***************************************************************************)
C28_StoredCorrelationsNotRead ==
  dLast.done => dLast.decision = dLast.fresh

\* a trade decided while a stored correlation was not the one of this call
C28_Witness ==
  /\ dLast.done
  /\ dLast.differed
  /\ today = 3
  /\ dLast.decision.should_trade
  /\ dLast.fresh = dLast.decision


(***************************************************************************)
(* C29: when the file of a pair holds rows and the refresh of a call gets  *)
(* an exception or no rows from the API, the file is left as it was, and a *)
(* load raises nothing and returns the rows the file held, those with      *)
(* start <= date <= end; a load that follows such a call and finds the     *)
(* file stale asks the API again.                                          *)
(***************************************************************************)
C29_FailedRefreshKeepsCache ==
  /\ (hLast.op \in {"load", "update"} /\ hLast.old # <<>> /\ FailedRefresh(hLast)) =>
       /\ files[hLast.pair] = Written(hLast.old)
       /\ hLast.raised = "none"
       /\ hLast.op = "load" =>
            hLast.data = InRange(hLast.old, hLast.range[1], hLast.range[2])
  /\ (hLast.op = "load" /\ hLast.after_failure /\ hLast.old # <<>>
        /\ MaxDateOf(hLast.old) < today - 1) =>
       /\ hLast.refreshed
       /\ hLast.asked = << <<MaxDateOf(hLast.old) + 1, today>> >>

\* a load of a stale file whose refresh fails as the one before it did, and
\* that returns rows of the file
C29_Witness ==
  /\ hLast.op = "load"
  /\ hLast.after_failure
  /\ hLast.old # <<>>
  /\ FailedRefresh(hLast)
  /\ hLast.got.kind = "raise"
  /\ hLast.data # <<>>
  /\ files[hLast.pair] = Written(hLast.old)


(***************************************************************************)
(* C30: once stop_updates or close has returned, and as long as            *)
(* start_updates is not called after it, no step replaces latest_data and  *)
(* no step writes to the journal.                                          *)
(***************************************************************************)
\* stop_updates or close is the last call made on the feed, and has returned
StopHasReturned ==
  /\ lastOp \in {"stop_updates", "close"}
  /\ thr[MainThread].pc = "idle"
  /\ op = "none"

C30_NothingAfterStop ==
  [][(StopHasReturned /\ StopHasReturned') =>
       (latest_data' = latest_data /\ journal' = journal)]_vars


(***************************************************************************)
(* C31: when start_updates is the last call made on the feed and has       *)
(* returned, the feed polls: update_thread is a live poller and stop_flag  *)
(* is clear, so that the poller passes its next loop test.                 *)
(***************************************************************************)
C31_StartedFeedPolls ==
  (lastOp \in {"start_new", "start_noop"} /\ thr[MainThread].pc = "idle") =>
    /\ update_thread # 0
    /\ is_alive(update_thread)
    /\ ~stop_flag


(***************************************************************************)
(* C32: a refresh, called directly or by a load, loses no date: every date *)
(* the file of the pair held before the call is a date of the series the   *)
(* file holds after it, whether the API answered rows, nothing or raised.  *)
(***************************************************************************)
C32_DatesNeverShrink ==
  (hLast.op # "none" /\ hLast.refreshed) =>
    DatesOf(hLast.old) \subseteq DatesOf(load_local_data(files[hLast.pair]))


(***************************************************************************)
(* C33: make_decision of SimpleStrategy on a snapshot without its pair     *)
(* returns NoTrade, raises nothing and leaves previous_rate as it was; the *)
(* call that follows it on a snapshot with the pair therefore compares the *)
(* rate with the one the strategy last observed.                           *)
(***************************************************************************)
C33_AbsentPairKeepsBaseline ==
  /\ (sLast.calls >= 1 /\ sLast.cur = <<>>) =>
       /\ sLast.decision = NoTrade
       /\ ~sLast.raised
       /\ previous_rate = sLast.prev
  /\ (sLast.gap /\ sLast.cur # <<>>) => sLast.prev = sLast.observed

\* a sell decided against the rate observed before a snapshot without the
\* pair
C33_Witness ==
  /\ sLast.gap
  /\ sLast.observed = <<100>>
  /\ sLast.prev = <<100>>
  /\ sLast.cur = <<103>>
  /\ sLast.decision.action = "sell"
  /\ previous_rate = <<103>>


(***************************************************************************)
(* C34: a cycle that returns False has appended nothing: trade_history is  *)
(* as long as it was when the cycle began.                                 *)
(***************************************************************************)
C34_FailedCycleAppendsNothing ==
  (lastOp = "check_and_execute" /\ ret = "False") =>
    Len(trade_history) = bLast.lenBefore

====
